---------------------------- MODULE Spec2Model ----------------------------
(***************************************************************************)
(* Model of adguardhome.py (class ChinaDnsAdguardHome): loading the manual *)
(* override file, fetching and parsing the downloaded domain lists, the    *)
(* minimum-length check, and the temp-file / backup / rename / chmod       *)
(* sequence of save.                                                       *)
(*                                                                         *)
(* Text is a sequence of characters, one string each: the character        *)
(* itself, or "U+XXXX" for a character from U+2000 on, which a string of   *)
(* a module cannot hold.  Indices handed between operators are Python's    *)
(* (0-based); Slice(s, i, j) is Python's s[i:j].                           *)
(***************************************************************************)
EXTENDS Integers, Sequences, FiniteSets, TLC

VARIABLES
    fs,         \* file system: path -> [exists, data, mode]
    web,        \* what each URL of config_urls serves: [ok, body]
    extra_dns,  \* self.extra_dns: insertion-ordered dict, a sequence of <<domain, line>>
    records,    \* self.records: set of domains
    next_url,   \* index into config_urls of the next URL fetch_and_process handles
    pc,         \* position of run()
    err,        \* the exception that ended run(), "" when none
    run_no,     \* number of the current invocation of the script
    pre,        \* history: the file system as it was when the current run began
    seen        \* what a concurrent reader last read at the output path: [read, file]

vars == <<fs, web, extra_dns, records, next_url, pc, err, run_no, pre, seen>>

-----------------------------------------------------------------------------
(* Bounds of the model *)

\* Invocations of the script in one behaviour of Spec.
MaxRuns == 2

\* Longest generated body of an override-file line or source line (SpecInputs).
MaxBody == 4

\* Most lines of a generated multi-line override file (SpecInputs).
MaxExtraLines == 3

-----------------------------------------------------------------------------
(* Program constants *)

\* DOWNLOAD_CONFIG_LIST: the two default URLs.
DOWNLOAD_CONFIG_LIST ==
    << "https://raw.githubusercontent.com/felixonmars/dnsmasq-china-list/master/accelerated-domains.china.conf",
       "https://raw.githubusercontent.com/felixonmars/dnsmasq-china-list/master/apple.china.conf" >>

CHINA_DNS ==
    << <<"2","2","3",".","5",".","5",".","5">>, <<"2","2","3",".","6",".","6",".","6">> >>

TRUSTED_DNS ==
    << <<"t","l","s",":","/","/","8",".","8",".","8",".","8">>,
       <<"t","l","s",":","/","/","8",".","8",".","4",".","4">> >>

EXTRA_DNS_FILE == "extra.conf"

\* EXPECTED_MIN_LENGTH is 70000 in the script; the model scales it to 2 so that
\* record sets on both sides of the threshold are reachable.
EXPECTED_MIN_LENGTH == 2

\* argparse default of --output.
OUTPUT == "china-dns-adguardhome.conf"

\* Mode of a file made by tempfile.NamedTemporaryFile (0o600) and the mode
\* save sets on the output (0o644).
MODE_TMP == 384
MODE_OUTPUT == 420

\* Mode of a file that open(path, "wb") creates (0o666 under the umask 0o022).
MODE_CREATED == 420

-----------------------------------------------------------------------------
(* Python string operations *)

Min(S) == CHOOSE x \in S : \A y \in S : x <= y
Max(S) == CHOOSE x \in S : \A y \in S : x >= y

\* Characters written as the characters themselves: U+000B, U+001C to
\* U+001F, U+0085, U+00A0, U+1680.
VT == ""
FS == ""
GS == ""
RS == ""
US == ""
NEL == ""
NBSP == " "
OGHAM_SPACE == " "

\* Characters from U+2000 on: line separator, paragraph separator, and the
\* spaces of the general punctuation block and of the CJK block.
LS == "U+2028"
PS == "U+2029"
UnicodeSpaces ==
    { "U+2000", "U+2001", "U+2002", "U+2003", "U+2004", "U+2005", "U+2006",
      "U+2007", "U+2008", "U+2009", "U+200A", "U+202F", "U+205F", "U+3000" }

\* The 29 characters str.strip() removes.
Whitespace ==
    {" ", "\t", "\n", "\r", "\f", VT, FS, GS, RS, US, NEL, NBSP, OGHAM_SPACE, LS, PS}
        \cup UnicodeSpaces

\* The characters at which str.splitlines() ends a line ("\r\n" counts once).
LineBreaks == {"\n", "\r", "\f", VT, FS, GS, RS, NEL, LS, PS}

\* str.strip()
Strip(s) ==
    LET keep == {i \in 1..Len(s) : s[i] \notin Whitespace}
    IN  IF keep = {} THEN <<>> ELSE SubSeq(s, Min(keep), Max(keep))

\* str.startswith(p)
StartsWith(s, p) == Len(s) >= Len(p) /\ SubSeq(s, 1, Len(p)) = p

\* str.find(sub, from): lowest 0-based index >= from where sub occurs, else -1.
Find(s, sub, from) ==
    LET hits == {i \in from..(Len(s) - Len(sub)) : SubSeq(s, i + 1, i + Len(sub)) = sub}
    IN  IF hits = {} THEN -1 ELSE Min(hits)

\* s[i:j] for 0 <= i and 0 <= j <= len(s)
Slice(s, i, j) == SubSeq(s, i + 1, j)

\* Every s[:k]
Prefixes(s) == {SubSeq(s, 1, k) : k \in 0..Len(s)}

\* sep.join(parts)
RECURSIVE Join(_, _)
Join(parts, sep) ==
    IF parts = <<>> THEN <<>>
    ELSE IF Len(parts) = 1 THEN parts[1]
    ELSE parts[1] \o sep \o Join(Tail(parts), sep)

\* Lines of text: a character of breaks ends a line, "\r\n" ends it as one
\* terminator; a final line without terminator is a line; no empty line
\* follows a final terminator.
SplitAt(text, breaks) ==
    LET n == Len(text)
        \* positions where a terminator ends
        ends == {i \in 1..n : /\ text[i] \in breaks
                              /\ ~(text[i] = "\r" /\ i < n /\ text[i + 1] = "\n")}
        last == IF ends = {} THEN 0 ELSE Max(ends)
        nth(k) == CHOOSE e \in ends : Cardinality({x \in ends : x < e}) = k - 1
        from(k) == IF k = 1 THEN 1 ELSE nth(k - 1) + 1
        \* where the terminator ending at e begins
        term(e) == IF text[e] = "\n" /\ e > 1 /\ text[e - 1] = "\r" THEN e - 1 ELSE e
        whole == [k \in 1..Cardinality(ends) |-> SubSeq(text, from(k), term(nth(k)) - 1)]
    IN  IF last < n THEN Append(whole, SubSeq(text, last + 1, n)) ELSE whole

\* str.splitlines()
SplitLines(text) == SplitAt(text, LineBreaks)

\* Iterating a file opened in text mode (universal newlines).  The iterator
\* leaves the terminator on each line; every use strips the line at once, so
\* the lines are given here without it.
FileLines(text) == SplitAt(text, {"\n", "\r"})

-----------------------------------------------------------------------------
(* Files *)

NoFile == [exists |-> FALSE, data |-> <<>>, mode |-> 0]
File(data, mode) == [exists |-> TRUE, data |-> data, mode |-> mode]

\* output + ".bak"
BakPath(output) == output \o ".bak"

\* The name tempfile.NamedTemporaryFile(prefix=f"{output}.", dir=".") makes:
\* the prefix followed by random characters, a name no file has yet.
\* (TmpPathInPlace is the slip of writing at the output path itself.)
TmpPathInPlace(output) == output
TmpPath(output) == output \o ".tmp"

Paths == {EXTRA_DNS_FILE, OUTPUT, BakPath(OUTPUT), TmpPath(OUTPUT)}

-----------------------------------------------------------------------------
(* dict: insertion-ordered, a sequence of <<key, value>> *)

DictKeys(d) == {d[i][1] : i \in 1..Len(d)}
DictGet(d, k) == d[CHOOSE i \in 1..Len(d) : d[i][1] = k][2]

\* d[k] = v: a new key goes last, a known key keeps its place.
DictSet(d, k, v) ==
    IF k \in DictKeys(d)
    THEN [i \in 1..Len(d) |-> IF d[i][1] = k THEN <<k, v>> ELSE d[i]]
    ELSE Append(d, <<k, v>>)

-----------------------------------------------------------------------------
(* load_extra_dns_conf *)

EXTRA_PREFIX == <<"[", "/">>
EXTRA_END == <<"/", "]">>

\* start = line.find("/]")
ExtraEnd(line) == Find(line, EXTRA_END, 0)

\* domain = line[2:start]
ExtraDomain(line, start) == Slice(line, 2, start)

\* The value stored for a line: the stripped line.
ExtraValue(raw, line) == line

\* extra_dns[domain] = line  (ExtraStoreFirst and ExtraStoreMoveLast are the
\* assignment with a slip: the first line kept, the key moved to the end.)
ExtraStoreFirst(d, k, v) == IF k \in DictKeys(d) THEN d ELSE Append(d, <<k, v>>)
ExtraStoreMoveLast(d, k, v) ==
    Append(SelectSeq(d, LAMBDA e : e[1] # k), <<k, v>>)
ExtraStore(d, k, v) == DictSet(d, k, v)

\* One pass of the loop body over a raw line of the file.
LoadLine(d, raw) ==
    LET line == Strip(raw)
    IN  IF ~StartsWith(line, EXTRA_PREFIX) THEN d
        ELSE LET start == ExtraEnd(line)
             IN  IF start = -1 THEN d
                 ELSE ExtraStore(d, ExtraDomain(line, start), ExtraValue(raw, line))

RECURSIVE LoadLines(_, _)
LoadLines(lines, d) ==
    IF lines = <<>> THEN d ELSE LoadLines(Tail(lines), LoadLine(d, Head(lines)))

load_extra_dns_conf(f) ==
    IF ~f.exists THEN <<>> ELSE LoadLines(FileLines(f.data), <<>>)

-----------------------------------------------------------------------------
(* fetch_and_process_one *)

SERVER_PREFIX == <<"s", "e", "r", "v", "e", "r", "=">>

first_slash(line) == Find(line, <<"/">>, 0)
second_slash(line) == Find(line, <<"/">>, first_slash(line) + 1)

\* Whether the loop body reaches the domain extraction for this (stripped)
\* line.  (HasDomainNoPrefixCheck is the test with the prefix check lost.)
HasDomainNoPrefixCheck(line) ==
    /\ first_slash(line) # -1
    /\ second_slash(line) # -1
HasDomain(line) ==
    /\ StartsWith(line, SERVER_PREFIX)
    /\ first_slash(line) # -1
    /\ second_slash(line) # -1

\* domain = line[first_slash + 1 : second_slash]  (SourceDomainToEnd is the
\* slice with its end lost.)
SourceDomainToEnd(line) == Slice(line, first_slash(line) + 1, Len(line))
SourceDomain(line) == Slice(line, first_slash(line) + 1, second_slash(line))

\* if domain not in self.extra_dns: self.records.add(domain)
AddRecord(recs, d, domain) ==
    IF domain \notin DictKeys(d) THEN recs \cup {domain} ELSE recs

ProcessLine(recs, d, raw) ==
    LET line == Strip(raw)
    IN  IF HasDomain(line) THEN AddRecord(recs, d, SourceDomain(line)) ELSE recs

RECURSIVE ProcessLines(_, _, _)
ProcessLines(lines, recs, d) ==
    IF lines = <<>> THEN recs
    ELSE ProcessLines(Tail(lines), ProcessLine(recs, d, Head(lines)), d)

\* The record set after the body of one successfully fetched URL is processed.
fetch_and_process_one(body, recs, d) == ProcessLines(SplitLines(body), recs, d)

\* len(self.records) < EXPECTED_MIN_LENGTH  (TooFewOffByOne is the comparison
\* off by one.)
TooFewOffByOne(recs) == Cardinality(recs) <= EXPECTED_MIN_LENGTH
TooFew(recs) == Cardinality(recs) < EXPECTED_MIN_LENGTH

-----------------------------------------------------------------------------
(* save: what is written *)

china_dns == Join(CHINA_DNS, <<" ">>)
trusted_dns == Join(TRUSTED_DNS, <<"\n">>)

\* f.write(self.trusted_dns); f.write("\n")
TrustedBlock == trusted_dns \o <<"\n">>

\* for _, extra_dns_line in self.extra_dns.items(): f.write(f"{extra_dns_line}\n")
RECURSIVE ExtraBlock(_)
ExtraBlock(d) ==
    IF d = <<>> THEN <<>> ELSE Head(d)[2] \o <<"\n">> \o ExtraBlock(Tail(d))

\* f"[/{domain}/]{self.china_dns}\n"
RecordLine(domain) == <<"[", "/">> \o domain \o <<"/", "]">> \o china_dns \o <<"\n">>

\* The orders in which a set can be iterated.
Orders(S) ==
    {o \in [1..Cardinality(S) -> S] : \A i, j \in 1..Cardinality(S) : i # j => o[i] # o[j]}

RECURSIVE RecordBlock(_)
RecordBlock(order) ==
    IF order = <<>> THEN <<>> ELSE RecordLine(Head(order)) \o RecordBlock(Tail(order))

-----------------------------------------------------------------------------
(* The environment: override files and served documents *)

NL == <<"\n">>

RECURSIVE Text(_)
Text(lines) == IF lines = <<>> THEN <<>> ELSE Head(lines) \o NL \o Text(Tail(lines))

\* All sequences over S of length at most n.
RECURSIVE SeqsUpTo(_, _)
SeqsUpTo(S, n) ==
    IF n = 0 THEN {<<>>}
    ELSE LET shorter == SeqsUpTo(S, n - 1)
         IN  shorter \cup {Append(s, c) : s \in {t \in shorter : Len(t) = n - 1}, c \in S}

Served(body) == [ok |-> TRUE, body |-> body]
\* urlopen raising (network error, HTTP error status) or decode failing.
Unreachable == [ok |-> FALSE, body |-> <<>>]

\* Documents of the multi-run specification: one record each, fewer than
\* EXPECTED_MIN_LENGTH.
DocA == Text(<< <<"#", LS>> \o SERVER_PREFIX \o <<"/", "a", "/", "1">> >>)
DocB == Text(<< <<"U+3000">> \o SERVER_PREFIX \o <<"/", "b", "/", "2", OGHAM_SPACE>> >>)
SmallWebs == [1..Len(DOWNLOAD_CONFIG_LIST) -> {Served(DocA), Served(DocB), Unreachable}]

\* A document of the single-run specification.
DocBC == Text(<< <<"#", VT>> \o SERVER_PREFIX \o <<"/", "b", "/", "2">>,
                 <<US>> \o SERVER_PREFIX \o <<"/", "c", "/", "2", NBSP>> >>)
\* Override files of the multi-run specification.
SmallExtraFiles == {NoFile, File(Text(<< <<"U+2003", "[", "/", "c", "/", "]", "x", PS>> >>), MODE_OUTPUT)}

\* An output file left by something other than this script.
Legacy == File(<<"o", "l", "d", "\n">>, MODE_OUTPUT)

\* Documents and override files of the single-run specification.
RichExtraLines ==
    LET bodies == SeqsUpTo({"/", "]", "a"}, MaxBody)
    IN  {EXTRA_PREFIX \o b : b \in bodies}
        \cup {<<"[">> \o b : b \in bodies}
        \cup {<<" ">> \o EXTRA_PREFIX \o b \o <<" ">> : b \in bodies}

SmallExtraLines ==
    { <<"[", "/", "a", "/", "]", "x">>, <<"[", "/", "b", "/", "]", "x", VT, "y">>,
      <<VT, "[", "/", "a", "/", "]", "y", " ">>, <<"[", "/", "/", "]", "x">> }

\* Override files of several lines, and no override file.
ManyLineExtraFiles ==
    {File(Text(ls), MODE_OUTPUT) : ls \in SeqsUpTo(SmallExtraLines, MaxExtraLines)}
    \cup {NoFile}

\* Override files of one generated line.
OneLineExtraFiles == {File(Text(<<l>>), MODE_OUTPUT) : l \in RichExtraLines}

RichSourceLines ==
    LET bodies == SeqsUpTo({"/", "a", "b"}, MaxBody)
    IN  {SERVER_PREFIX \o b : b \in bodies}
        \cup {b : b \in bodies}
        \cup {<<" ">> \o SERVER_PREFIX \o b \o <<" ">> : b \in bodies}

DocA0 == Text(<< SERVER_PREFIX \o <<"/", "a", "/", "1">>, SERVER_PREFIX \o <<"/", "/", "1">> >>)
DocBadC == Text(<< <<"b", "a", "d", "/", "b", "/">>, SERVER_PREFIX \o <<"/", "c", "/", "2">>,
                   SERVER_PREFIX \o <<"/", "b">> >>)
FixedWeb == <<Served(DocA0), Served(DocBadC)>>
RichWebs == {<<Served(Text(<<l>>)), Served(DocBC)>> : l \in RichSourceLines}

-----------------------------------------------------------------------------
(* State *)

config_urls == DOWNLOAD_CONFIG_LIST

NotRead == [read |-> FALSE, file |-> NoFile]

\* A file system holding the override file and the output file given.
Disk(extra, output) ==
    [p \in Paths |-> IF p = EXTRA_DNS_FILE THEN extra
                     ELSE IF p = OUTPUT THEN output ELSE NoFile]

\* The state after ChinaDnsAdguardHome.__init__ on file system f.
Constructed(f, w, n) ==
    /\ fs = f
    /\ web = w
    /\ extra_dns = load_extra_dns_conf(f[EXTRA_DNS_FILE])
    /\ records = {}
    /\ next_url = 1
    /\ pc = "fetch"
    /\ err = ""
    /\ run_no = n
    /\ pre = f
    /\ seen = NotRead

Init ==
    \E extra \in SmallExtraFiles, output \in {NoFile, Legacy}, w \in SmallWebs :
        Constructed(Disk(extra, output), w, 1)

InitInputs ==
    \/ \E extra \in ManyLineExtraFiles, output \in {NoFile, Legacy} :
           Constructed(Disk(extra, output), FixedWeb, 1)
    \/ \E extra \in OneLineExtraFiles :
           Constructed(Disk(extra, NoFile), FixedWeb, 1)
    \/ \E w \in RichWebs :
           Constructed(Disk(File(Text(<< <<"[", "/", "a", "/", "]", "x">> >>), MODE_OUTPUT), NoFile), w, 1)

Raise(e) == pc' = "error" /\ err' = e

-----------------------------------------------------------------------------
(* fetch_and_process *)

\* One iteration of the loop over config_urls: fetch_and_process_one(url).
FetchOne ==
    /\ pc = "fetch"
    /\ next_url <= Len(config_urls)
    /\ IF web[next_url].ok
       THEN /\ records' = fetch_and_process_one(web[next_url].body, records, extra_dns)
            /\ next_url' = next_url + 1
            /\ UNCHANGED <<pc, err>>
       ELSE /\ Raise("fetch")
            /\ UNCHANGED <<records, next_url>>
    /\ UNCHANGED <<fs, web, extra_dns, run_no, pre, seen>>

\* The length check after the loop; on success run() goes on to save().
Validate ==
    /\ pc = "fetch"
    /\ next_url > Len(config_urls)
    /\ IF TooFew(records) THEN Raise("threshold") ELSE pc' = "open" /\ err' = err
    /\ UNCHANGED <<fs, web, extra_dns, records, next_url, run_no, pre, seen>>

-----------------------------------------------------------------------------
(* save *)

tmp_file == TmpPath(OUTPUT)

\* tempfile.NamedTemporaryFile(...): an empty file under a fresh name.
SaveOpenTmp ==
    /\ pc = "open"
    /\ fs' = [fs EXCEPT ![tmp_file] = File(<<>>, MODE_TMP)]
    /\ pc' = "write_trusted"
    /\ UNCHANGED <<web, extra_dns, records, next_url, err, run_no, pre, seen>>

SaveOpenTmpFail ==
    /\ pc = "open"
    /\ Raise("tmp")
    /\ UNCHANGED <<fs, web, extra_dns, records, next_url, run_no, pre, seen>>

WriteTmp(f, text) == [f EXCEPT ![tmp_file].data = @ \o text]

SaveWriteTrusted ==
    /\ pc = "write_trusted"
    /\ fs' = WriteTmp(fs, TrustedBlock)
    /\ pc' = "write_extra"
    /\ UNCHANGED <<web, extra_dns, records, next_url, err, run_no, pre, seen>>

SaveWriteExtra ==
    /\ pc = "write_extra"
    /\ fs' = WriteTmp(fs, ExtraBlock(extra_dns))
    /\ pc' = "write_records"
    /\ UNCHANGED <<web, extra_dns, records, next_url, err, run_no, pre, seen>>

\* The loop over self.records, in whatever order the set iterates, and the
\* close of the temporary file at the end of the with block.
SaveWriteRecords ==
    /\ pc = "write_records"
    /\ \E order \in Orders(records) : fs' = WriteTmp(fs, RecordBlock(order))
    /\ pc' = "backup"
    /\ UNCHANGED <<web, extra_dns, records, next_url, err, run_no, pre, seen>>

\* The text the write at pc hands to the file object.
Pending(at) ==
    IF at = "write_trusted" THEN {TrustedBlock}
    ELSE IF at = "write_extra" THEN {ExtraBlock(extra_dns)}
    ELSE {RecordBlock(order) : order \in Orders(records)}

\* A write raising (disk full, file size limit).  The file object buffers:
\* the OSError comes out of the write that flushes or out of the close at the
\* end of the with block, and the file, which stays, holds whatever part of
\* the text handed over so far did fit.
SaveWriteFail ==
    /\ pc \in {"write_trusted", "write_extra", "write_records"}
    /\ \E text \in Pending(pc) :
           \E part \in Prefixes(fs[tmp_file].data \o text) :
               fs' = [fs EXCEPT ![tmp_file].data = part]
    /\ Raise("write")
    /\ UNCHANGED <<web, extra_dns, records, next_url, run_no, pre, seen>>

\* shutil.copy2(output, output + ".bak"): data and metadata.  (BackupMove and
\* BackupFromTmp are the step with a slip: the file moved, the new file copied.)
BackupMove(f, output) == [f EXCEPT ![BakPath(output)] = f[output], ![output] = NoFile]
BackupFromTmp(f, output) == [f EXCEPT ![BakPath(output)] = f[TmpPath(output)]]
BackupCopy(f, output) == [f EXCEPT ![BakPath(output)] = f[output]]

\* if Path(output).exists(): shutil.copy2(...)
SaveBackup ==
    /\ pc = "backup"
    /\ fs' = IF fs[OUTPUT].exists THEN BackupCopy(fs, OUTPUT) ELSE fs
    /\ pc' = "rename"
    /\ UNCHANGED <<web, extra_dns, records, next_url, err, run_no, pre, seen>>

\* The backup step raising.  Path(output).exists() raises, whether or not
\* there is an output file (the directory cannot be searched), or copy2
\* raises before the backup file is opened: nothing has changed.  Or copy2
\* raises after the backup file was opened for writing (created, or truncated
\* with its mode kept) and some part of the data, possibly all of it, was
\* copied; the metadata is not yet copied.
SaveBackupFail ==
    /\ pc = "backup"
    /\ \/ fs' = fs
       \/ /\ fs[OUTPUT].exists
          /\ \E part \in Prefixes(fs[OUTPUT].data) :
                 fs' = [fs EXCEPT ![BakPath(OUTPUT)] =
                           File(part, IF fs[BakPath(OUTPUT)].exists
                                      THEN fs[BakPath(OUTPUT)].mode ELSE MODE_CREATED)]
    /\ Raise("backup")
    /\ UNCHANGED <<web, extra_dns, records, next_url, run_no, pre, seen>>

\* Path(tmp_file).rename(output): one atomic step.
SaveRename ==
    /\ pc = "rename"
    /\ fs' = [fs EXCEPT ![OUTPUT] = fs[tmp_file], ![tmp_file] = NoFile]
    /\ pc' = "chmod"
    /\ UNCHANGED <<web, extra_dns, records, next_url, err, run_no, pre, seen>>

SaveRenameFail ==
    /\ pc = "rename"
    /\ Raise("rename")
    /\ UNCHANGED <<fs, web, extra_dns, records, next_url, run_no, pre, seen>>

\* Path(output).chmod(0o644)
SaveChmod ==
    /\ pc = "chmod"
    /\ fs' = [fs EXCEPT ![OUTPUT].mode = MODE_OUTPUT]
    /\ pc' = "done"
    /\ UNCHANGED <<web, extra_dns, records, next_url, err, run_no, pre, seen>>

SaveChmodFail ==
    /\ pc = "chmod"
    /\ Raise("chmod")
    /\ UNCHANGED <<fs, web, extra_dns, records, next_url, run_no, pre, seen>>

-----------------------------------------------------------------------------
(* The surroundings *)

\* Another process reads the output path.
Read ==
    /\ seen' = [read |-> TRUE, file |-> fs[OUTPUT]]
    /\ UNCHANGED <<fs, web, extra_dns, records, next_url, pc, err, run_no, pre>>

\* The script is invoked again: the override file and the served documents
\* may have changed, the temporary file of the new run has a new name, and
\* __init__ loads the override file.
Restart ==
    /\ pc \in {"done", "error"}
    /\ run_no < MaxRuns
    /\ \E extra \in SmallExtraFiles, w \in SmallWebs :
        LET f == [fs EXCEPT ![EXTRA_DNS_FILE] = extra, ![tmp_file] = NoFile]
        IN  /\ fs' = f
            /\ web' = w
            /\ extra_dns' = load_extra_dns_conf(extra)
            /\ records' = {}
            /\ next_url' = 1
            /\ pc' = "fetch"
            /\ err' = ""
            /\ run_no' = run_no + 1
            /\ pre' = f
            /\ seen' = NotRead

Run ==
    \/ FetchOne
    \/ Validate
    \/ SaveOpenTmp
    \/ SaveOpenTmpFail
    \/ SaveWriteTrusted
    \/ SaveWriteExtra
    \/ SaveWriteRecords
    \/ SaveWriteFail
    \/ SaveBackup
    \/ SaveBackupFail
    \/ SaveRename
    \/ SaveRenameFail
    \/ SaveChmod
    \/ SaveChmodFail

\* The steps of run() in which no file-system call raises.
RunNoFault ==
    \/ FetchOne
    \/ Validate
    \/ SaveOpenTmp
    \/ SaveWriteTrusted
    \/ SaveWriteExtra
    \/ SaveWriteRecords
    \/ SaveBackup
    \/ SaveRename
    \/ SaveChmod

Next == Run \/ Restart

\* Successive invocations on one file system.
Spec == Init /\ [][Next]_vars

NextReader == Run \/ Read

\* One invocation, with a concurrent reader of the output path.
SpecReader == Init /\ [][NextReader]_vars

NextInputs == RunNoFault

\* One invocation on a file system whose calls succeed, over generated
\* override files and source documents.
SpecInputs == InitInputs /\ [][NextInputs]_vars

-----------------------------------------------------------------------------
(* Vocabulary of the properties *)

Keys == DictKeys(extra_dns)

Contains(s, sub) == \E i \in 0..(Len(s) - Len(sub)) : SubSeq(s, i + 1, i + Len(sub)) = sub

\* Same existence and same bytes.
SameContent(f, g) == f.exists = g.exists /\ f.data = g.data

\* The configurations save can write for the loaded overrides and the record set.
Rendered ==
    {TrustedBlock \o ExtraBlock(extra_dns) \o RecordBlock(o) : o \in Orders(records)}

\* The rename of this run has happened.
Renamed == pc \in {"chmod", "done"} \/ (pc = "error" /\ err = "chmod")

\* save has begun (the length check passed).
InSave ==
    \/ pc \in {"open", "write_trusted", "write_extra", "write_records",
               "backup", "rename", "chmod", "done"}
    \/ (pc = "error" /\ err \in {"tmp", "write", "backup", "rename", "chmod"})

\* The lines of the override file, as the loop of load_extra_dns_conf sees them.
ExtraFileLines ==
    IF fs[EXTRA_DNS_FILE].exists THEN FileLines(fs[EXTRA_DNS_FILE].data) ELSE <<>>

\* The same lines, stripped.
ExtraStripped == [k \in 1..Len(ExtraFileLines) |-> Strip(ExtraFileLines[k])]

\* In the operators below L is a sequence of stripped override-file lines.
\* Line k is stored by the loader: it starts with "[/" and holds "/]" somewhere.
Stored(L, k) == StartsWith(L[k], EXTRA_PREFIX) /\ Contains(L[k], EXTRA_END)
StoredLines(L) == {k \in 1..Len(L) : Stored(L, k)}

\* The text of line k from index 2 up to its first "/]" (empty when that
\* "/]" begins at index 1, inside the prefix).
CutAt(L, k) == Min({i \in 0..(Len(L[k]) - 2) : SubSeq(L[k], i + 1, i + 2) = EXTRA_END})
NamedBy(L, k) == SubSeq(L[k], 3, CutAt(L, k))

\* The last stored line naming the same domain as line k.
LastNaming(L, k) == Max({j \in StoredLines(L) : NamedBy(L, j) = NamedBy(L, k)})

\* The lines fetch_and_process has handled so far.
RECURSIVE ProcessedUpTo(_)
ProcessedUpTo(u) ==
    IF u = 0 THEN <<>> ELSE ProcessedUpTo(u - 1) \o SplitLines(web[u].body)
Processed == ProcessedUpTo(next_url - 1)
ProcessedStripped == {Strip(Processed[i]) : i \in 1..Len(Processed)}

Slashes(t) == {i \in 1..Len(t) : t[i] = "/"}
WellFormed(t) == StartsWith(t, SERVER_PREFIX) /\ Cardinality(Slashes(t)) >= 2
\* The text strictly between the first and the second "/" of t.
Between(t) ==
    LET i1 == Min(Slashes(t))
        i2 == Min(Slashes(t) \ {i1})
    IN  SubSeq(t, i1 + 1, i2 - 1)

OutLines == FileLines(fs[OUTPUT].data)

-----------------------------------------------------------------------------
(* C1 *)

\* C1 (as claimed): a domain D that is a key of the loaded override mapping is
\* never a member of the record set, and the written file has exactly one line
\* of the form [/D/]... for D.
C1_OverridePrecedence ==
    LET out == OutLines
    IN  \A D \in Keys :
            /\ D \notin records
            /\ Renamed =>
                 Cardinality({i \in 1..Len(out) :
                                StartsWith(out[i], EXTRA_PREFIX \o D \o EXTRA_END)}) = 1

-----------------------------------------------------------------------------
(* C2 *)

\* C2: run reaches the write step iff the merged record set has at least
\* EXPECTED_MIN_LENGTH members; with fewer it raises the insufficient-records
\* error and no file-system step of save has been performed.
C2_Threshold ==
    /\ InSave => Cardinality(records) >= EXPECTED_MIN_LENGTH
    /\ (pc = "error" /\ err = "threshold") =>
           /\ Cardinality(records) < EXPECTED_MIN_LENGTH
           /\ fs = pre
    /\ (pc = "error" /\ err # "fetch" /\ Cardinality(records) < EXPECTED_MIN_LENGTH) =>
           err = "threshold"

C2_Witness ==
    /\ pc = "error" /\ err = "threshold"
    /\ Cardinality(records) = EXPECTED_MIN_LENGTH - 1
    /\ run_no = 2 /\ pre[OUTPUT].exists /\ pre[OUTPUT] # Legacy

-----------------------------------------------------------------------------
(* C3 *)

\* C3 (as claimed): when run ends with an error, whichever step failed, the
\* output path has exactly the content it had before the run.
C3_AllOrNothingClaim ==
    pc = "error" => SameContent(fs[OUTPUT], pre[OUTPUT])

\* C3 (amended): a failure of any step up to and including the rename leaves
\* the output path with the content it had before the run; the content changes
\* only at the rename, to a complete rendered configuration, and that is what
\* the path holds when the run succeeds and also when it ends with an error
\* because the permission change failed.
C3_AllOrNothing ==
    /\ (pc = "error" /\ err # "chmod") => SameContent(fs[OUTPUT], pre[OUTPUT])
    /\ ~Renamed => SameContent(fs[OUTPUT], pre[OUTPUT])
    /\ Renamed => fs[OUTPUT].exists /\ fs[OUTPUT].data \in Rendered

C3_Witness ==
    /\ pc = "error" /\ err = "rename"
    /\ pre[OUTPUT].exists
    /\ fs[tmp_file].exists /\ fs[tmp_file].data \in Rendered
    /\ fs[tmp_file].data # fs[OUTPUT].data

-----------------------------------------------------------------------------
(* C4 *)

\* C4: if the output file exists with content A before save and save succeeds
\* writing content B, then the output reads B and output + ".bak" reads A, in
\* every run: the .bak of an earlier run is overwritten.
C4_Backup ==
    (pc = "done" /\ pre[OUTPUT].exists) =>
        /\ fs[OUTPUT].exists /\ fs[OUTPUT].data \in Rendered
        /\ fs[BakPath(OUTPUT)] = pre[OUTPUT]

C4_Witness ==
    /\ pc = "done" /\ run_no = 2
    /\ pre[OUTPUT].exists /\ pre[BakPath(OUTPUT)].exists
    /\ pre[BakPath(OUTPUT)].data # pre[OUTPUT].data
    /\ fs[OUTPUT].data # pre[OUTPUT].data

-----------------------------------------------------------------------------
(* C5 *)

\* C5: whatever a concurrent reader reads at the output path while run goes
\* through its steps is the complete previous file or a complete new
\* configuration, never a partially written one.
C5_AtomicVisibility ==
    seen.read =>
        \/ seen.file = pre[OUTPUT]
        \/ /\ pc # "fetch"
           /\ seen.file.exists
           /\ seen.file.data \in Rendered

C5_Witness ==
    /\ seen.read /\ pc = "chmod"
    /\ pre[OUTPUT].exists
    /\ seen.file.data # pre[OUTPUT].data

-----------------------------------------------------------------------------
(* C6 *)

\* C6 (as claimed): for every line of the override file of the form [/D/]X the
\* mapping holds D -> the full unmodified text of that line, also when several
\* lines name the same D and when the line carries surrounding whitespace.
C6_VerbatimClaim ==
    LET L == ExtraStripped
    IN  \A k \in 1..Len(L) :
            \A i \in 2..(Len(L[k]) - 2) :
                (StartsWith(L[k], EXTRA_PREFIX) /\ SubSeq(L[k], i + 1, i + 2) = EXTRA_END) =>
                    /\ SubSeq(L[k], 3, i) \in Keys
                    /\ DictGet(extra_dns, SubSeq(L[k], 3, i)) = ExtraFileLines[k]

\* C6 (amended): for every line whose stripped text starts with "[/" and holds
\* "/]", with D the text from index 2 up to the first "/]", the mapping holds
\* D -> the stripped text of the last line of the file that names D; the
\* mapping has no other key.
C6_LastStripped ==
    LET L == ExtraStripped
        S == StoredLines(L)
    IN  /\ \A k \in S :
               /\ NamedBy(L, k) \in Keys
               /\ DictGet(extra_dns, NamedBy(L, k)) = L[LastNaming(L, k)]
        /\ \A D \in Keys : \E k \in S : NamedBy(L, k) = D

C6_Witness ==
    LET L == ExtraStripped
    IN  \E j, k \in StoredLines(L) :
            /\ j < k
            /\ NamedBy(L, j) = NamedBy(L, k)
            /\ L[j] # L[k]
            /\ L[k] # ExtraFileLines[k]
            /\ LastNaming(L, k) = k

-----------------------------------------------------------------------------
(* C7 *)

\* The line "[/D/]<upstream target>".
Generated(D) ==
    <<"[", "/">> \o D \o <<"/", "]">>
    \o <<"2","2","3",".","5",".","5",".","5"," ","2","2","3",".","6",".","6",".","6">>

\* A file that is the trusted-resolver lines, then the lines `overrides`, then
\* one generated line for each member of the record set, each line ended by
\* one newline.
Laid(overrides) ==
    LET h == Len(TRUSTED_DNS) + Len(overrides)
        out == OutLines
    IN  /\ fs[OUTPUT].data = Text(out)
        /\ Len(out) = h + Cardinality(records)
        /\ SubSeq(out, 1, h) = TRUSTED_DNS \o overrides
        /\ \A D \in records :
               Cardinality({i \in (h + 1)..Len(out) : out[i] = Generated(D)}) = 1

\* The stored lines among the first k of L, in file order.
RECURSIVE StoredUpTo(_, _)
StoredUpTo(L, k) ==
    IF k = 0 THEN <<>>
    ELSE IF Stored(L, k) THEN Append(StoredUpTo(L, k - 1), L[k])
    ELSE StoredUpTo(L, k - 1)

\* For each domain named among the first k lines of L, in the order of its
\* first line, the text of its last line in L.
RECURSIVE LastOfFirstUpTo(_, _)
LastOfFirstUpTo(L, k) ==
    IF k = 0 THEN <<>>
    ELSE IF Stored(L, k) /\ \A j \in StoredLines(L) : j < k => NamedBy(L, j) # NamedBy(L, k)
         THEN Append(LastOfFirstUpTo(L, k - 1), L[LastNaming(L, k)])
    ELSE LastOfFirstUpTo(L, k - 1)

\* C7 (as claimed): the written file is the trusted-resolver lines, then one
\* override line per valid override-file line in file order, then exactly one
\* generated line per member of the record set.
C7_LayoutClaim ==
    pc = "done" => Laid(StoredUpTo(ExtraStripped, Len(ExtraFileLines)))

\* C7 (amended): the written file is the trusted-resolver lines, then one
\* override line per distinct override domain, in the order of the domains'
\* first lines in the override file and with the text of each domain's last
\* line, then exactly one generated line per member of the record set.
C7_Layout ==
    pc = "done" => Laid(LastOfFirstUpTo(ExtraStripped, Len(ExtraFileLines)))

C7_Witness ==
    /\ pc = "done"
    /\ records # {}
    /\ LET L == ExtraStripped
       IN  \E i, j, k \in StoredLines(L) :
               /\ i < j /\ j < k
               /\ NamedBy(L, i) = NamedBy(L, k) /\ NamedBy(L, i) # NamedBy(L, j)
               /\ L[i] # L[k]

-----------------------------------------------------------------------------
(* C8 *)

\* C8: a source line adds a domain only if, stripped, it starts with "server="
\* and has at least two "/", and the domain is then the text strictly between
\* the first and the second "/" (added unless it is an override key); any other
\* line adds nothing and raises nothing.
C8_Parsing ==
    /\ LET P == ProcessedStripped
       IN  records = {Between(t) : t \in {u \in P : WellFormed(u)}} \ Keys
    /\ (pc = "error" /\ err = "fetch") => ~web[next_url].ok

C8_Witness ==
    /\ pc = "fetch" /\ next_url = 3
    /\ LET P == ProcessedStripped
       IN  /\ \E t \in P : /\ ~StartsWith(t, SERVER_PREFIX)
                           /\ Cardinality(Slashes(t)) >= 2
                           /\ Between(t) \notin records
           /\ \E t \in P : WellFormed(t) /\ Between(t) \in records

-----------------------------------------------------------------------------
(* C9 *)

\* C9 (as claimed): every member of the record set and every key of the
\* override mapping is non-empty and contains no "/".
C9_DomainClaim ==
    \A d \in records \cup Keys : d # <<>> /\ ~Contains(d, <<"/">>)

\* C9 (amended): every member of the record set contains no "/" and every key
\* of the override mapping contains no "/]"; either may be empty, and a key
\* may contain "/".
C9_Domain ==
    /\ \A d \in records : ~Contains(d, <<"/">>)
    /\ \A d \in Keys : ~Contains(d, EXTRA_END)

C9_Witness ==
    /\ <<>> \in records
    /\ \E d \in records : d # <<>>
    /\ \E d \in Keys : Contains(d, <<"/">>)

-----------------------------------------------------------------------------
(* C10 *)

\* C10 (as claimed): for every stored entry D -> line, the "/]" that cut D lies
\* after the "[/" prefix, so line begins with "[/" D "/]"; a line that starts
\* with "[/" and has no "/]" after the prefix stores no entry.
C10_EntryClaim ==
    /\ \A i \in 1..Len(extra_dns) :
           StartsWith(extra_dns[i][2], EXTRA_PREFIX \o extra_dns[i][1] \o EXTRA_END)
    /\ LET L == ExtraStripped
       IN  \A k \in 1..Len(L) :
               (StartsWith(L[k], EXTRA_PREFIX) /\ Find(L[k], EXTRA_END, 2) = -1) =>
                   \A i \in 1..Len(extra_dns) : extra_dns[i][2] # L[k]

=============================================================================
